---- MODULE Spec2Model ----
(***************************************************************************)
(* The memory bus (Mmu) of the emulator, src/src/memory/mmu.rs, and the    *)
(* two bus helpers of src/src/cpu/instructions/mod.rs.                     *)
(*                                                                         *)
(* Addresses are u16 and bytes are u8.  A backing array [u8; N] is kept    *)
(* sparsely: a function from the indices that hold a non-zero byte to that *)
(* byte, every other index reading 0 (the arrays are zero-initialised).    *)
(* An index at or beyond N is Rust's out-of-bounds panic.                  *)
(***************************************************************************)
EXTENDS Integers, Sequences, FiniteSets, TLC

VARIABLES
    mmu,                  \* the Mmu: its fields, the Gpu it holds, the stores it reads
    panicked,             \* the session has aborted
    last,                 \* the last bus operation: its name, arguments and result
    calls,                \* the byte writes and GPU calls the last operation made
    boot_disable_written, \* some byte write to 0xFF50 has been issued
    ops,                  \* bus operations issued so far
    cpu,                  \* the Cpu: its program counter and the cycles charged
    executed              \* the last instruction executed, and how many were

vars == <<mmu, panicked, last, calls, boot_disable_written, ops, cpu, executed>>

\* ------------------------------------------------------------- constants
EXT_RAM_SIZE == 8192
W_RAM_SIZE == 8192
ECHO_RAM_SIZE == 7679
H_RAM_SIZE == 127
IO_SIZE == 127

USER_PROGRAM_AREA_ADDRESS == \h0100
VRAM_ADDRESS == \h8000
EXT_RAM_ADDRESS == \hA000
ECHO_RAM_ADDRESS == \hE000
W_RAM_ADDRESS == \hC000
OAM_ADDRESS == \hFE00
IO_ADDRESS == \hFF00
H_RAM_ADDR == \hFF80
BG_PAL_ADDR == \hFF47
INTERRUPT_ENABLE_ADDRESS == \hFFFF
INTERRUPT_FLAGS_ADDRESS == \hFF0F
BOOT_DISABLE_ADDRESS == \hFF50
DMA_ADDRESS == \hFF46
KEYPAD_ADDRESS == \hFF00
LCDC_ADDRESS == \hFF40
SCROLL_Y_ADDRESS == \hFF42
SCROLL_X_ADDRESS == \hFF43
SCANLINE_ADDRESS == \hFF44
DMA_LENGTH == 160

\* The value standing for a panic where a byte or a word was expected.
PANIC == -1

U16 == 65536
U8 == 256

\* ---------------------------------------------------------------- arrays
EmptyArray == [j \in {} |-> 0]

ArrayGet(arr, i) == IF i \in DOMAIN arr THEN arr[i] ELSE 0

\* arr[i] = v.  (f @@ g is built at once, which keeps a long run of stores
\* from nesting.)
ArraySet(arr, i, v) ==
    IF v # 0 THEN (i :> v) @@ arr
    ELSE IF i \notin DOMAIN arr THEN arr
    ELSE [j \in (DOMAIN arr) \ {i} |-> arr[j]] @@ EmptyArray

\* arr[i] of a [u8; size]: the byte, or the out-of-bounds panic.
Index(arr, size, i) == IF i < size THEN ArrayGet(arr, i) ELSE PANIC

\* ------------------------------------------------------------ arithmetic
\* a + b on u16.  What an overflow does is the build's choice: with
\* overflow checks (the debug profile) it panics, without them (the release
\* profile) it wraps.  `checks` is that choice; the operations that add take
\* it as their first parameter.
add_u16(checks, a, b) ==
    IF a + b < U16 THEN a + b
    ELSE IF checks THEN PANIC ELSE (a + b) % U16

\* util::binary::bytes_to_word(first, second).  Its body is not part of the
\* sources at hand; the first argument is taken as the high byte: that is
\* the order in which read_hl_addr hands it the registers (h, l), and the
\* order in which write_word stores a word, which a word read has to undo.
bytes_to_word(first, second) == first * U8 + second

\* ------------------------------------------------------------- cartridge
\* A Cartridge (also the BIOS store) is read-only: read(address) -> byte.
cartridge_read(cart, address) ==
    IF address \in DOMAIN cart.rom THEN cart.rom[address] ELSE cart.fill

\* ------------------------------------------------------------------- gpu
gpu_write_vram(gpu, address, value) ==
    [gpu EXCEPT !.vram = ArraySet(@, address - VRAM_ADDRESS, value)]

gpu_read_vram(gpu, address) == ArrayGet(gpu.vram, address - VRAM_ADDRESS)

gpu_write_oam(gpu, address, value) ==
    [gpu EXCEPT !.oam = ArraySet(@, address - OAM_ADDRESS, value)]

gpu_read_oam(gpu, address) == ArrayGet(gpu.oam, address - OAM_ADDRESS)

gpu_write_lcdc(gpu, value) == [gpu EXCEPT !.lcdc = value]

gpu_set_bgpal(gpu, value) == [gpu EXCEPT !.bgpal = value]

\* A call the bus makes, as the last operation's log keeps it.
Call(fn, address, value) == [fn |-> fn, address |-> address, value |-> value]

\* ------------------------------------------------------------- Mmu::read
\* The scanline address read back from the I/O block.
io_read_scanline_stored(self, address) ==
    IF address = \hFF00 THEN \hFF
    ELSE IF address = \hFF40 THEN self.gpu.lcdc
    ELSE IF address = \hFF42 THEN self.gpu.scroll_y
    ELSE IF address = \hFF43 THEN self.gpu.scroll_x
    ELSE Index(self.io, IO_SIZE, address - IO_ADDRESS)

\* The keypad address read back from the stored keypad byte.
io_read_keypad_stored(self, address) ==
    IF address = \hFF00 THEN self.keypad
    ELSE IF address = \hFF40 THEN self.gpu.lcdc
    ELSE IF address = \hFF42 THEN self.gpu.scroll_y
    ELSE IF address = \hFF43 THEN self.gpu.scroll_x
    ELSE IF address = \hFF44 THEN self.gpu.current_scanline
    ELSE Index(self.io, IO_SIZE, address - IO_ADDRESS)

io_read(self, address) ==
    IF address = \hFF00 THEN \hFF
    ELSE IF address = \hFF40 THEN self.gpu.lcdc
    ELSE IF address = \hFF42 THEN self.gpu.scroll_y
    ELSE IF address = \hFF43 THEN self.gpu.scroll_x
    ELSE IF address = \hFF44 THEN self.gpu.current_scanline
    ELSE Index(self.io, IO_SIZE, address - IO_ADDRESS)

\* Without a BIOS store the read falls through to the Cartridge.
boot_read_cartridge_fallback(self, address) ==
    IF ~self.is_booted /\ self.bios.present
    THEN cartridge_read(self.bios, address)
    ELSE cartridge_read(self.cartridge, address)

boot_read(self, address) ==
    IF ~self.is_booted
    THEN IF self.bios.present THEN cartridge_read(self.bios, address) ELSE PANIC
    ELSE cartridge_read(self.cartridge, address)

\* The unusable range read as an open bus.
read_unusable_open_bus(self, address) == \hFF

\* 0xFEA0..=0xFEFE => 0
read_unusable(self, address) == 0

\* The OAM arm reaching 0xFE9F, the last destination of a DMA transfer.
read_oam_through_fe9f(self, address) ==
    IF address = INTERRUPT_FLAGS_ADDRESS THEN self.interrupt_flags
    ELSE IF address <= \hFF THEN boot_read(self, address)
    ELSE IF address >= USER_PROGRAM_AREA_ADDRESS /\ address <= \h7FFF
        THEN cartridge_read(self.cartridge, address)
    ELSE IF address >= VRAM_ADDRESS /\ address <= \h9FFF
        THEN gpu_read_vram(self.gpu, address)
    ELSE IF address >= EXT_RAM_ADDRESS /\ address <= \hBFFF
        THEN Index(self.ext_ram, EXT_RAM_SIZE, address - EXT_RAM_ADDRESS)
    ELSE IF address >= W_RAM_ADDRESS /\ address <= \hDFFF
        THEN Index(self.w_ram, W_RAM_SIZE, address - W_RAM_ADDRESS)
    ELSE IF address >= ECHO_RAM_ADDRESS /\ address <= \hFDFE
        THEN Index(self.echo_ram, ECHO_RAM_SIZE, address - ECHO_RAM_ADDRESS)
    ELSE IF address >= OAM_ADDRESS /\ address <= \hFE9F
        THEN gpu_read_oam(self.gpu, address)
    ELSE IF address >= \hFEA0 /\ address <= \hFEFE THEN read_unusable(self, address)
    ELSE IF address >= IO_ADDRESS /\ address <= \hFF7E THEN io_read(self, address)
    ELSE IF address >= H_RAM_ADDR /\ address <= \hFFFD
        THEN Index(self.h_ram, H_RAM_SIZE, address - H_RAM_ADDR)
    ELSE IF address = INTERRUPT_ENABLE_ADDRESS THEN self.interrupts_enabled
    ELSE 0

read(self, address) ==
    IF address = INTERRUPT_FLAGS_ADDRESS THEN self.interrupt_flags
    ELSE IF address <= \hFF THEN boot_read(self, address)
    ELSE IF address >= USER_PROGRAM_AREA_ADDRESS /\ address <= \h7FFF
        THEN cartridge_read(self.cartridge, address)
    ELSE IF address >= VRAM_ADDRESS /\ address <= \h9FFF
        THEN gpu_read_vram(self.gpu, address)
    ELSE IF address >= EXT_RAM_ADDRESS /\ address <= \hBFFF
        THEN Index(self.ext_ram, EXT_RAM_SIZE, address - EXT_RAM_ADDRESS)
    ELSE IF address >= W_RAM_ADDRESS /\ address <= \hDFFF
        THEN Index(self.w_ram, W_RAM_SIZE, address - W_RAM_ADDRESS)
    ELSE IF address >= ECHO_RAM_ADDRESS /\ address <= \hFDFE
        THEN Index(self.echo_ram, ECHO_RAM_SIZE, address - ECHO_RAM_ADDRESS)
    ELSE IF address >= OAM_ADDRESS /\ address <= \hFE9E
        THEN gpu_read_oam(self.gpu, address)
    ELSE IF address >= \hFEA0 /\ address <= \hFEFE THEN read_unusable(self, address)
    ELSE IF address >= IO_ADDRESS /\ address <= \hFF7E THEN io_read(self, address)
    ELSE IF address >= H_RAM_ADDR /\ address <= \hFFFD
        THEN Index(self.h_ram, H_RAM_SIZE, address - H_RAM_ADDR)
    ELSE IF address = INTERRUPT_ENABLE_ADDRESS THEN self.interrupts_enabled
    ELSE 0

\* -------------------------------------------------------- Mmu::read_word
read_word(checks, self, address) ==
    LET first == read(self, address)
        next == add_u16(checks, address, 1)
        second == IF next = PANIC THEN PANIC ELSE read(self, next)
    IN  IF first = PANIC \/ second = PANIC THEN PANIC
        ELSE bytes_to_word(first, second)

\* ------------------------------------------------------ Mmu::read_opcode
Opcode(tag, value) == [tag |-> tag, value |-> value]

read_opcode(checks, self, pc) ==
    LET op_code == read(self, pc)
        next == add_u16(checks, pc, 1)
        second == IF next = PANIC THEN PANIC ELSE read(self, next)
    IN  IF op_code = PANIC THEN Opcode("panic", 0)
        ELSE IF op_code = \hCB
            THEN IF second = PANIC THEN Opcode("panic", 0) ELSE Opcode("CB", second)
        ELSE Opcode("Regular", op_code)

\* ------------------------------------------------------------ Mmu::write
\* What an operation leaves: the bus, whether it panicked, and the calls
\* it made (byte writes and GPU calls), in order.
Done(self, cs) == [self |-> self, panic |-> FALSE, calls |-> cs]
Panicked(self, cs) == [self |-> self, panic |-> TRUE, calls |-> cs]

\* The element after the one addressed takes the byte.
Store_off_by_one(self, field, size, i, value) ==
    IF i + 1 < size
    THEN Done([self EXCEPT ![field] = ArraySet(@, i + 1, value)], << >>)
    ELSE Panicked(self, << >>)

\* self.<field>[i] = value on a [u8; size].
Store(self, field, size, i, value) ==
    IF i < size
    THEN Done([self EXCEPT ![field] = ArraySet(@, i, value)], << >>)
    ELSE Panicked(self, << >>)

\* One iteration of the loop: read the source byte through the bus, hand it
\* to the Gpu's write_oam.
dma_step(out, start_address, offset) ==
    IF out.panic THEN out
    ELSE LET byte == read(out.self, start_address + offset)
         IN  IF byte = PANIC THEN Panicked(out.self, out.calls)
             ELSE Done([out.self EXCEPT !.gpu =
                            gpu_write_oam(@, OAM_ADDRESS + offset, byte)],
                       Append(out.calls,
                              Call("write_oam", OAM_ADDRESS + offset, byte)))

\* The iterations from..to-1 of `for offset in 0..160`, in order (the range
\* is halved so that the evaluation does not nest 160 deep).
RECURSIVE dma_loop(_, _, _, _)
dma_loop(out, start_address, from, to) ==
    IF out.panic \/ to <= from THEN out
    ELSE IF to = from + 1 THEN dma_step(out, start_address, from)
    ELSE LET mid == (from + to) \div 2
         IN  dma_loop(dma_loop(out, start_address, from, mid),
                      start_address, mid, to)

\* The source byte taken as the start address, the shift left out.
dma_transfer_unshifted(self, source_address) ==
    dma_loop(Done(self, << >>), source_address, 0, DMA_LENGTH)

dma_transfer(self, source_address) ==
    dma_loop(Done(self, << >>), (source_address * U8) % U16, 0, DMA_LENGTH)

\* The named write taps of the I/O arm, each `if` in the order of the source.
io_taps(self, address, value) ==
    LET s1 == IF address = \hFF00 THEN [self EXCEPT !.keypad = value] ELSE self
        s2 == IF address = \hFF40
              THEN [s1 EXCEPT !.gpu = gpu_write_lcdc(@, value)] ELSE s1
        c2 == IF address = \hFF40
              THEN <<Call("write_lcdc", address, value)>> ELSE << >>
        s3 == IF address = \hFF42 THEN [s2 EXCEPT !.gpu.scroll_y = value] ELSE s2
        s4 == IF address = \hFF43 THEN [s3 EXCEPT !.gpu.scroll_x = value] ELSE s3
        s5 == IF address = BG_PAL_ADDR
              THEN [s4 EXCEPT !.gpu = gpu_set_bgpal(@, value)] ELSE s4
        c5 == IF address = BG_PAL_ADDR
              THEN Append(c2, Call("set_bgpal", address, value)) ELSE c2
        d  == IF address = DMA_ADDRESS THEN dma_transfer(s5, value)
              ELSE Done(s5, << >>)
    IN  [d EXCEPT !.calls = c5 \o @]

\* self.io[(address - IO_ADDRESS) as usize] = value
io_store(self, address, value) ==
    Store(self, "io", IO_SIZE, address - IO_ADDRESS, value)

IoTaps == { \hFF00, \hFF40, \hFF42, \hFF43, BG_PAL_ADDR, DMA_ADDRESS }

\* A tap that returns once its side effect is done, the byte not stored.
io_write_tap_returns(self, address, value) ==
    LET d == io_taps(self, address, value)
    IN  IF d.panic \/ address \in IoTaps THEN d
        ELSE [io_store(d.self, address, value) EXCEPT !.calls = d.calls]

io_write(self, address, value) ==
    LET d == io_taps(self, address, value)
    IN  IF d.panic THEN d
        ELSE [io_store(d.self, address, value) EXCEPT !.calls = d.calls]

\* The latch follows the byte written: a write of 0 leaves it false.
write_boot_disable_by_value(self, value) ==
    Done([self EXCEPT !.is_booted = (value # 0)], << >>)

\* 0xFF50 => self.is_booted = true
write_boot_disable(self, value) == Done([self EXCEPT !.is_booted = TRUE], << >>)

\* Echo RAM as an alias of working RAM: the byte lands in w_ram.
write_echo_ram_aliased(self, address, value) ==
    Store(self, "w_ram", W_RAM_SIZE, address - ECHO_RAM_ADDRESS, value)

\* The echo array one byte short of its range.
write_echo_ram_short(self, address, value) ==
    Store(self, "echo_ram", ECHO_RAM_SIZE - 1, address - ECHO_RAM_ADDRESS, value)

write_echo_ram(self, address, value) ==
    Store(self, "echo_ram", ECHO_RAM_SIZE, address - ECHO_RAM_ADDRESS, value)

write_h_ram(self, address, value) ==
    Store(self, "h_ram", H_RAM_SIZE, address - H_RAM_ADDR, value)

\* The OAM arm reaching 0xFE9F, the last destination of a DMA transfer.
write_arm_oam_through_fe9f(self, address, value) ==
    IF address = BOOT_DISABLE_ADDRESS THEN write_boot_disable(self, value)
    ELSE IF address = INTERRUPT_FLAGS_ADDRESS
        THEN Done([self EXCEPT !.interrupt_flags = value], << >>)
    ELSE IF address >= VRAM_ADDRESS /\ address <= \h9FFF
        THEN Done([self EXCEPT !.gpu = gpu_write_vram(@, address, value)],
                  <<Call("write_vram", address, value)>>)
    ELSE IF address >= EXT_RAM_ADDRESS /\ address <= \hBFFF
        THEN Store(self, "ext_ram", EXT_RAM_SIZE, address - EXT_RAM_ADDRESS, value)
    ELSE IF address >= W_RAM_ADDRESS /\ address <= \hDFFF
        THEN Store(self, "w_ram", W_RAM_SIZE, address - W_RAM_ADDRESS, value)
    ELSE IF address >= ECHO_RAM_ADDRESS /\ address <= \hFDFE
        THEN write_echo_ram(self, address, value)
    ELSE IF address >= OAM_ADDRESS /\ address <= \hFE9F
        THEN Done([self EXCEPT !.gpu = gpu_write_oam(@, address, value)],
                  <<Call("write_oam", address, value)>>)
    ELSE IF address >= IO_ADDRESS /\ address <= \hFF7E
        THEN io_write(self, address, value)
    ELSE IF address >= H_RAM_ADDR /\ address <= \hFFFD
        THEN write_h_ram(self, address, value)
    ELSE IF address = INTERRUPT_ENABLE_ADDRESS
        THEN Done([self EXCEPT !.interrupts_enabled = value], << >>)
    ELSE Done(self, << >>)

\* The match of Mmu::write, its arms in the order of the source.
write_arm(self, address, value) ==
    IF address = BOOT_DISABLE_ADDRESS THEN write_boot_disable(self, value)
    ELSE IF address = INTERRUPT_FLAGS_ADDRESS
        THEN Done([self EXCEPT !.interrupt_flags = value], << >>)
    ELSE IF address >= VRAM_ADDRESS /\ address <= \h9FFF
        THEN Done([self EXCEPT !.gpu = gpu_write_vram(@, address, value)],
                  <<Call("write_vram", address, value)>>)
    ELSE IF address >= EXT_RAM_ADDRESS /\ address <= \hBFFF
        THEN Store(self, "ext_ram", EXT_RAM_SIZE, address - EXT_RAM_ADDRESS, value)
    ELSE IF address >= W_RAM_ADDRESS /\ address <= \hDFFF
        THEN Store(self, "w_ram", W_RAM_SIZE, address - W_RAM_ADDRESS, value)
    ELSE IF address >= ECHO_RAM_ADDRESS /\ address <= \hFDFE
        THEN write_echo_ram(self, address, value)
    ELSE IF address >= OAM_ADDRESS /\ address <= \hFE9E
        THEN Done([self EXCEPT !.gpu = gpu_write_oam(@, address, value)],
                  <<Call("write_oam", address, value)>>)
    ELSE IF address >= IO_ADDRESS /\ address <= \hFF7E
        THEN io_write(self, address, value)
    ELSE IF address >= H_RAM_ADDR /\ address <= \hFFFD
        THEN write_h_ram(self, address, value)
    ELSE IF address = INTERRUPT_ENABLE_ADDRESS
        THEN Done([self EXCEPT !.interrupts_enabled = value], << >>)
    ELSE Done(self, << >>)

write(self, address, value) ==
    LET r == write_arm(self, address, value)
    IN  [r EXCEPT !.calls = <<Call("write", address, value)>> \o @]

\* ------------------------------------------------------- Mmu::write_word
\* The low byte stored at `address`, the high byte at the next.
write_word_low_first(checks, self, address, value) ==
    LET r1 == write(self, address, value % U8)
        next == add_u16(checks, address, 1)
    IN  IF r1.panic THEN r1
        ELSE IF next = PANIC THEN Panicked(r1.self, r1.calls)
        ELSE LET r2 == write(r1.self, next, value \div U8)
             IN  [r2 EXCEPT !.calls = r1.calls \o @]

\* The two byte writes issued in the other order: the low byte at the next
\* address first, the high byte at `address` second.
write_word_second_first(checks, self, address, value) ==
    LET next == add_u16(checks, address, 1)
        r1 == write(self, next, value % U8)
    IN  IF next = PANIC THEN Panicked(self, << >>)
        ELSE IF r1.panic THEN r1
        ELSE LET r2 == write(r1.self, address, value \div U8)
             IN  [r2 EXCEPT !.calls = r1.calls \o @]

write_word(checks, self, address, value) ==
    LET r1 == write(self, address, value \div U8)
        next == add_u16(checks, address, 1)
    IN  IF r1.panic THEN r1
        ELSE IF next = PANIC THEN Panicked(r1.self, r1.calls)
        ELSE LET r2 == write(r1.self, next, value % U8)
             IN  [r2 EXCEPT !.calls = r1.calls \o @]

\* ------------------------------------------- instructions/mod.rs helpers
read_hl_addr(self, h, l) == read(self, bytes_to_word(h, l))

write_hl_addr(self, value, h, l) == write(self, bytes_to_word(h, l), value)

\* ------------------------------------------- instructions/mod.rs: execution
ExecutionType == { "ActionTaken", "Jumped", "JumpedActionTaken", "None" }

\* Option<u8>.
Some(value) == [some |-> TRUE, value |-> value]
NoValue == [some |-> FALSE, value |-> 0]

\* An Instruction, its description and handler left out.
Instruction(length, clock_cycles, clock_cycles_condition) ==
    [length |-> length, clock_cycles |-> clock_cycles,
     clock_cycles_condition |-> clock_cycles_condition]

\* What a handler does to the program counter: one that returns Jumped or
\* JumpedActionTaken has set it to its target, the others leave it alone.
handler(c, execution_type, target) ==
    IF execution_type \in { "Jumped", "JumpedActionTaken" }
    THEN [c EXCEPT !.pc = target]
    ELSE c

\* The cycles charged for one instruction: the base cost, and the extra cost
\* when the handler reports its action taken.
charge(instruction, execution_type) ==
    IF execution_type \in { "ActionTaken", "JumpedActionTaken" }
    THEN instruction.clock_cycles + instruction.clock_cycles_condition.value
    ELSE instruction.clock_cycles

\* The driving loop adding the length whatever the handler returned.
apply_outcome_always_advances(c, instruction, execution_type) ==
    [c EXCEPT !.pc = @ + instruction.length,
              !.cycles = @ + charge(instruction, execution_type)]

\* The driving loop after the handler has returned: charge the cycles, and
\* advance the program counter unless the handler has set it.
apply_outcome(c, instruction, execution_type) ==
    [c EXCEPT !.pc = IF execution_type \in { "None", "ActionTaken" }
                     THEN @ + instruction.length ELSE @,
              !.cycles = @ + charge(instruction, execution_type)]

\* ---------------------------------------------------------------- inputs
MaxOps == 2

\* The cartridge and the BIOS store of the session.
GameCartridge ==
    [present |-> TRUE, fill |-> \hFF,
     rom |-> (\h0000 :> \hC3) @@ (\h0050 :> \h3E) @@ (\h00FF :> \hCB)
             @@ (\h0100 :> \h7C) @@ (\h7FFF :> \hCB)]

BiosCartridge ==
    [present |-> TRUE, fill |-> \h00,
     rom |-> (\h0000 :> \h31) @@ (\h0050 :> \hE0) @@ (\h00FF :> \h50)]

\* bios: None.
NoBios == [present |-> FALSE, fill |-> 0, rom |-> EmptyArray]

\* The byte writes the session issues, <<address, value>>: the edges of the
\* ranges of the routing, the holes between them, the taps, and the DMA
\* sources (ROM, video memory, working RAM, OAM itself, the I/O page).
WriteInputs ==
    { <<\h0050, \hCB>>,
      <<\h8000, \hCB>>, <<\h809F, \h7C>>, <<\hA000, \h7C>>,
      <<\hC000, \hCB>>, <<\hC000, \h00>>, <<\hC001, \h7C>>, <<\hDFFF, \h7C>>,
      <<\hE000, \hCB>>, <<\hFDFE, \h7C>>, <<\hFDFF, \hCB>>,
      <<\hFE00, \h7C>>, <<\hFE9E, \hCB>>, <<\hFE9F, \hCB>>, <<\hFEB0, \hCB>>,
      <<\hFF00, \h7C>>, <<\hFF0F, \hCB>>, <<\hFF40, \h7C>>, <<\hFF42, \h7C>>,
      <<\hFF43, \hCB>>, <<\hFF44, \h7C>>, <<\hFF47, \hCB>>,
      <<\hFF50, \h00>>, <<\hFF50, \hCB>>,
      <<\hFF7E, \h7C>>, <<\hFF7F, \hCB>>, <<\hFF80, \hCB>>, <<\hFFFD, \h7C>>,
      <<\hFFFE, \hCB>>, <<\hFFFF, \hCB>>,
      <<\hFF46, \h00>>, <<\hFF46, \h80>>, <<\hFF46, \hC0>>, <<\hFF46, \hFE>>,
      <<\hFF46, \hFF>> }

\* The word writes, <<address, value>>: plain storage, a span holding a tap,
\* and the last address.
WordInputs ==
    { <<\hC000, \h7CFF>>, <<\hFF45, \h7CFF>>, <<\hFF4F, \hCB7C>>,
      <<\hFF50, \h7CCB>>, <<\hFFFF, \h7CCB>> }

ReadInputs == { \h0050, \hC000 }

ReadWordInputs == { \h00FF, \hC000, \hFFFF }

ReadOpcodeInputs == { \h00FF, \h7FFF, \hC000, \hFFFF }

\* Register pairs <<h, l>> of the Cpu.
HlPairs == { <<\hC0, \h01>>, <<\h00, \h50>> }

\* ------------------------------------------------------------- Gpu state
\* The Gpu as the bus receives it: its memories empty, the control byte and
\* the scanline its own, not a byte of the I/O block.
NewGpu(scanline) ==
    [vram |-> EmptyArray, oam |-> EmptyArray, lcdc |-> \h91, scroll_x |-> 0,
     scroll_y |-> 0, current_scanline |-> scanline, bgpal |-> 0]

\* -------------------------------------------------------------- Mmu::new
\* The bus constructed with the boot latch already set.
new_booted(cartridge, gpu, bios) ==
    [cartridge |-> cartridge, gpu |-> gpu, bios |-> bios,
     ext_ram |-> EmptyArray, w_ram |-> EmptyArray, echo_ram |-> EmptyArray,
     h_ram |-> EmptyArray, io |-> EmptyArray,
     interrupts_enabled |-> 0, interrupt_flags |-> 0,
     is_booted |-> TRUE, keypad |-> \hFF]

new(cartridge, gpu, bios) ==
    [cartridge |-> cartridge, gpu |-> gpu, bios |-> bios,
     ext_ram |-> EmptyArray, w_ram |-> EmptyArray, echo_ram |-> EmptyArray,
     h_ram |-> EmptyArray, io |-> EmptyArray,
     interrupts_enabled |-> 0, interrupt_flags |-> 0,
     is_booted |-> FALSE, keypad |-> \hFF]

\* ------------------------------------------------------------- Cpu state
MaxSteps == 2

\* The Cpu at the entry point of the cartridge, no cycle charged yet.
NewCpu == [pc |-> USER_PROGRAM_AREA_ADDRESS, cycles |-> 0]

\* The descriptors the session executes: one, two and three bytes long,
\* without and with an extra cost.
Instructions ==
    { Instruction(1, 4, NoValue), Instruction(2, 8, NoValue),
      Instruction(3, 16, NoValue), Instruction(2, 8, Some(4)),
      Instruction(3, 12, Some(12)) }

\* What a handler of the descriptor may return: an extra cost is charged
\* only where the descriptor has one.
Outcomes(instruction) ==
    IF instruction.clock_cycles_condition.some THEN ExecutionType
    ELSE { "None", "Jumped" }

\* Where the jumping handlers set the program counter.
JumpTargets == { \h0150, \hC000 }

Executed(count, instruction, execution_type, before, handled) ==
    [count |-> count, instruction |-> instruction,
     execution_type |-> execution_type, pc_before |-> before.pc,
     cycles_before |-> before.cycles, handler_pc |-> handled.pc]

NothingExecuted ==
    Executed(0, Instruction(0, 0, NoValue), "None", NewCpu, NewCpu)

Op(name, address, value, result, tag) ==
    [op |-> name, address |-> address, value |-> value, result |-> result,
     tag |-> tag]

Init ==
    /\ \E bios \in {NoBios, BiosCartridge} :
            mmu = new(GameCartridge, NewGpu(\h90), bios)
    /\ panicked = FALSE
    /\ last = Op("new", 0, 0, 0, "none")
    /\ calls = << >>
    /\ boot_disable_written = FALSE
    /\ ops = 0
    /\ cpu = NewCpu
    /\ executed = NothingExecuted

\* --------------------------------------------------------------- actions
Ready == ~panicked /\ ops < MaxOps

\* A byte write to 0xFF50 is among the calls.
WritesBootDisable(cs) ==
    \E i \in 1..Len(cs) : cs[i].fn = "write" /\ cs[i].address = BOOT_DISABLE_ADDRESS

Mutate(name, address, value, out) ==
    /\ mmu' = out.self
    /\ panicked' = out.panic
    /\ calls' = out.calls
    /\ last' = Op(name, address, value, 0, "none")
    /\ boot_disable_written' = (boot_disable_written \/ WritesBootDisable(out.calls))
    /\ ops' = ops + 1
    /\ UNCHANGED <<cpu, executed>>

\* A read that clears the interrupt flags it passes.
Observe_clears_flags(name, address, result, tag) ==
    /\ panicked' = (tag = "panic" \/ result = PANIC)
    /\ last' = Op(name, address, 0, result, tag)
    /\ calls' = << >>
    /\ ops' = ops + 1
    /\ mmu' = [mmu EXCEPT !.interrupt_flags = 0]
    /\ UNCHANGED <<boot_disable_written, cpu, executed>>

Observe(name, address, result, tag) ==
    /\ panicked' = (tag = "panic" \/ result = PANIC)
    /\ last' = Op(name, address, 0, result, tag)
    /\ calls' = << >>
    /\ ops' = ops + 1
    /\ UNCHANGED <<mmu, boot_disable_written, cpu, executed>>

Write ==
    \E in \in WriteInputs :
        Ready /\ Mutate("write", in[1], in[2], write(mmu, in[1], in[2]))

WriteWord ==
    \E in \in WordInputs, checks \in BOOLEAN :
        Ready /\ Mutate("write_word", in[1], in[2],
                        write_word(checks, mmu, in[1], in[2]))

Read ==
    \E address \in ReadInputs :
        Ready /\ Observe("read", address, read(mmu, address), "none")

ReadWord ==
    \E address \in ReadWordInputs, checks \in BOOLEAN :
        Ready /\ Observe("read_word", address, read_word(checks, mmu, address), "none")

ReadOpcode ==
    \E pc \in ReadOpcodeInputs, checks \in BOOLEAN :
        LET o == read_opcode(checks, mmu, pc)
        IN  Ready /\ Observe("read_opcode", pc, o.value, o.tag)

ReadHlAddr ==
    \E hl \in HlPairs :
        Ready /\ Observe("read_hl_addr", bytes_to_word(hl[1], hl[2]),
                         read_hl_addr(mmu, hl[1], hl[2]), "none")

WriteHlAddr ==
    \E hl \in HlPairs :
        Ready /\ Mutate("write_hl_addr", bytes_to_word(hl[1], hl[2]), \h3C,
                        write_hl_addr(mmu, \h3C, hl[1], hl[2]))

Next ==
    \/ Write
    \/ WriteWord
    \/ Read
    \/ ReadWord
    \/ ReadOpcode
    \/ ReadHlAddr
    \/ WriteHlAddr

Spec == Init /\ [][Next]_vars

\* ------------------------------------------------------ the driving loop
\* One instruction: its handler runs, then the loop applies the outcome.
Execute ==
    \E instruction \in Instructions, target \in JumpTargets :
        \E execution_type \in Outcomes(instruction) :
            LET handled == handler(cpu, execution_type, target)
            IN  /\ executed.count < MaxSteps
                /\ cpu' = apply_outcome(handled, instruction, execution_type)
                /\ executed' = Executed(executed.count + 1, instruction,
                                        execution_type, cpu, handled)
                /\ UNCHANGED <<mmu, panicked, last, calls,
                               boot_disable_written, ops>>

CpuInit == Init /\ mmu.bios.present

CpuNext == Execute

CpuSpec == CpuInit /\ [][CpuNext]_vars

\* ---------------------------------------------------------------- claims
BootRange == 0..\hFF

\* One address at each edge of every range of the routing, and the taps.
Addrs ==
    { \h0000, \h0050, \h00FF, \h0100, \h7FFF, \h8000, \h809F, \h9FFF,
      \hA000, \hBFFF, \hC000, \hC001, \hDFFF, \hE000, \hFDFD, \hFDFE, \hFDFF,
      \hFE00, \hFE45, \hFE9D, \hFE9E, \hFE9F, \hFEA0, \hFEB0, \hFEFE, \hFEFF,
      \hFF00, \hFF0F, \hFF40, \hFF42, \hFF43, \hFF44, \hFF45, \hFF46,
      \hFF47, \hFF4F, \hFF50, \hFF7E, \hFF7F, \hFF80, \hFFFC, \hFFFD, \hFFFE,
      \hFFFF }

ProbeBytes == { \h00, \h7C, \hCB, \hFF }

ProbeWords == { \h0000, \h7CFF, \hCB7C, \hFFFF }

\* Plain read/write storage: video memory, external, working and echo RAM,
\* OAM and high RAM.
Plain(a) ==
    \/ a >= VRAM_ADDRESS /\ a <= \hFDFE
    \/ a >= OAM_ADDRESS /\ a <= \hFE9E
    \/ a >= H_RAM_ADDR /\ a <= \hFFFD

IsByteWrite(c) == c.fn = "write"

\* The byte writes among the calls, in order.
ByteWrites(cs) == SelectSeq(cs, IsByteWrite)

\* C1. Boot overlay: in a session with a BIOS store, every address of
\* 0x0000-0x00FF reads the BIOS store's byte as long as no byte write to
\* 0xFF50 has been issued, and the Cartridge's byte in every state after one
\* (of any value, 0 included); the routing never goes back to the BIOS.
C1_BootOverlay ==
    mmu.bios.present =>
        \A a \in BootRange :
            read(mmu, a) = IF boot_disable_written
                           THEN cartridge_read(mmu.cartridge, a)
                           ELSE cartridge_read(mmu.bios, a)

\* A read of 0x0050 after a write to 0xFF50 has returned the Cartridge's byte.
C1_Witness ==
    /\ mmu.bios.present
    /\ boot_disable_written
    /\ last.op = "read" /\ last.address = \h0050
    /\ last.result = cartridge_read(mmu.cartridge, \h0050)
    /\ last.result # cartridge_read(mmu.bios, \h0050)

\* C2. DMA copy: when write(0xFF46, V) returns, the Gpu's OAM byte at each
\* offset k of 0..159 is the byte read(V*256+k) returned right before the
\* write, and the bus handed the Gpu exactly these 160 bytes, in order,
\* through write_oam.
C2_DmaCopy ==
    [][ (last'.op = "write" /\ last'.address = DMA_ADDRESS /\ ~panicked') =>
            /\ \A k \in 0..(DMA_LENGTH - 1) :
                    /\ ArrayGet(mmu'.gpu.oam, k) = read(mmu, last'.value * U8 + k)
                    /\ calls'[k + 2] = Call("write_oam", OAM_ADDRESS + k,
                                            read(mmu, last'.value * U8 + k))
            /\ Len(calls') = DMA_LENGTH + 1 ]_vars

\* A DMA from 0x80 has copied the byte written at 0x809F into OAM offset 159.
C2_Witness ==
    /\ last.op = "write" /\ last.address = DMA_ADDRESS /\ last.value = \h80
    /\ ~panicked
    /\ gpu_read_vram(mmu.gpu, \h809F) = \h7C
    /\ ArrayGet(mmu.gpu.oam, \h9F) = \h7C

\* C3. Word round-trip: for A and A+1 both in plain read/write storage,
\* write_word(A, W) followed by read_word(A) returns W.
C3_WordRoundTrip ==
    /\ Ready =>
            \A a \in Addrs, w \in ProbeWords, checks \in BOOLEAN :
                (Plain(a) /\ Plain(a + 1)) =>
                    LET out == write_word(checks, mmu, a, w)
                    IN  ~out.panic /\ read_word(checks, out.self, a) = w
    /\ (/\ last.op = "write_word" /\ ~panicked
        /\ Plain(last.address) /\ Plain(last.address + 1)) =>
            \A checks \in BOOLEAN :
                read_word(checks, mmu, last.address) = last.value

\* write_word(0xC000, 0x7CFF) has returned and read_word(0xC000) is 0x7CFF.
C3_Witness ==
    /\ last.op = "write_word" /\ last.address = \hC000 /\ last.value = \h7CFF
    /\ ~panicked
    /\ read_word(TRUE, mmu, \hC000) = \h7CFF

\* The second address of a word operation, where the addition wraps.
NextAddress(a) == (a + 1) % U16

\* C5. Word write ordering: a write_word(A, W) that returns has issued
\* exactly two byte writes, write(A, high byte of W) and then write(A+1, low
\* byte of W), each through the taps; write_word(0xFF45, W) with low byte
\* 0xFF runs a DMA from 0xFF00 that copies the high byte of W, already
\* stored at 0xFF45, into OAM offset 0x45.
C5_WordWriteOrder ==
    (last.op = "write_word" /\ ~panicked) =>
        /\ ByteWrites(calls) =
                << Call("write", last.address, last.value \div U8),
                   Call("write", NextAddress(last.address), last.value % U8) >>
        /\ (last.address = \hFF45 /\ last.value % U8 = \hFF) =>
                /\ ArrayGet(mmu.gpu.oam, \h45) = last.value \div U8
                /\ \E i \in 1..Len(calls) :
                        calls[i] = Call("write_oam", \hFE45, last.value \div U8)
                /\ Len(calls) = DMA_LENGTH + 2

\* write_word(0xFF45, 0x7CFF) has returned and OAM offset 0x45 holds 0x7C.
C5_Witness ==
    /\ last.op = "write_word" /\ last.address = \hFF45 /\ last.value = \h7CFF
    /\ ~panicked
    /\ ArrayGet(mmu.gpu.oam, \h45) = \h7C

\* The read/write regions of C6: plain storage and the two interrupt
\* registers.
ReadWrite(a) ==
    Plain(a) \/ a = INTERRUPT_FLAGS_ADDRESS \/ a = INTERRUPT_ENABLE_ADDRESS

\* C6. Byte round-trip: for every address A of a read/write region and every
\* byte v, in any reachable state, write(A, v) returns and a read(A) after it
\* returns v.
C6_ByteRoundTrip ==
    /\ Ready =>
            \A a \in Addrs, v \in ProbeBytes :
                ReadWrite(a) =>
                    LET out == write(mmu, a, v)
                    IN  ~out.panic /\ read(out.self, a) = v
    /\ (last.op = "write" /\ ReadWrite(last.address)) =>
            ~panicked /\ read(mmu, last.address) = last.value

\* write(0xFDFE, 0x7C), the last byte of echo RAM, has returned and
\* read(0xFDFE) is 0x7C.
C6_Witness ==
    /\ last.op = "write" /\ last.address = \hFDFE /\ last.value = \h7C
    /\ ~panicked
    /\ read(mmu, \hFDFE) = \h7C

UnusableRange == \hFEA0..\hFEFE

\* C7. Unusable range: every address of 0xFEA0-0xFEFE reads 0 in every
\* reachable state, and still does after a byte write to it, after a word
\* write spanning it and after a DMA transfer.
C7_UnusableReadsZero ==
    /\ \A a \in UnusableRange : read(mmu, a) = 0
    /\ Ready =>
            \A a \in { \hFEA0, \hFEB0, \hFEFE } :
                /\ \A v \in ProbeBytes : read(write(mmu, a, v).self, a) = 0
                /\ \A w \in ProbeWords, checks \in BOOLEAN :
                        /\ read(write_word(checks, mmu, a - 1, w).self, a) = 0
                        /\ read(write_word(checks, mmu, a, w).self, a) = 0

\* write(0xFEB0, 0xCB) has returned and read(0xFEB0) is 0.
C7_Witness ==
    /\ last.op = "write" /\ last.address = \hFEB0 /\ last.value = \hCB
    /\ ~panicked
    /\ read(mmu, \hFEB0) = 0

ReadOps == { "read", "read_word", "read_opcode", "read_hl_addr" }

\* C8. Missing BIOS is fatal: without a BIOS store and with the boot latch
\* false, a read of an address in 0x0000-0x00FF panics, also inside
\* read_word, read_opcode and the DMA transfer of write(0xFF46, 0x00); once
\* 0xFF50 has been written the same reads return the Cartridge's byte and
\* do not panic.
C8_MissingBiosFatal ==
    ~mmu.bios.present =>
        /\ ~mmu.is_booted =>
                \A a \in BootRange : read(mmu, a) = PANIC
        /\ (Ready /\ ~mmu.is_booted) =>
                /\ \A a \in BootRange, checks \in BOOLEAN :
                        /\ read_word(checks, mmu, a) = PANIC
                        /\ read_opcode(checks, mmu, a).tag = "panic"
                /\ write(mmu, DMA_ADDRESS, 0).panic
        /\ boot_disable_written =>
                \A a \in BootRange : read(mmu, a) = cartridge_read(mmu.cartridge, a)
        /\ (Ready /\ boot_disable_written) =>
                \A a \in BootRange, checks \in BOOLEAN :
                    /\ read_word(checks, mmu, a) # PANIC
                    /\ read_opcode(checks, mmu, a).tag # "panic"
        /\ (last.op \in ReadOps /\ last.address \in BootRange) =>
                (panicked <=> ~mmu.is_booted)
        /\ (last.op = "write" /\ last.address = DMA_ADDRESS /\ last.value = 0) =>
                (panicked <=> ~mmu.is_booted)

\* Without a BIOS store, a read of 0x0050 has aborted the session.
C8_Witness ==
    /\ ~mmu.bios.present /\ ~mmu.is_booted
    /\ last.op = "read" /\ last.address = \h0050
    /\ panicked

\* Every address can be read: the BIOS store is there or the latch is set.
Readable == mmu.bios.present \/ mmu.is_booted

\* C9. Opcode decode: in a readable memory state read_opcode(pc) never
\* fails, for any pc of 0..65535 (0xFFFF holding 0xCB included); it returns
\* CB(read(pc+1)) when read(pc) is 0xCB and Regular(read(pc)) otherwise.
C9_DecodeNeverFails ==
    (last.op = "read_opcode" /\ Readable) =>
        /\ last.tag # "panic"
        /\ ~panicked
        /\ Opcode(last.tag, last.result) =
                IF read(mmu, last.address) = \hCB
                THEN Opcode("CB", read(mmu, NextAddress(last.address)))
                ELSE Opcode("Regular", read(mmu, last.address))

NamedTaps == IoTaps \cup { BOOT_DISABLE_ADDRESS }

UnreadTaps == { DMA_ADDRESS, BG_PAL_ADDR, BOOT_DISABLE_ADDRESS }

IoByte(self, a) == ArrayGet(self.io, a - IO_ADDRESS)

\* C10 as stated. A write of v to a named tap address (0xFF50 among them)
\* also stores v in the I/O block, so that a read of 0xFF46, 0xFF47 or
\* 0xFF50 after it returns v.
C10_TapsStoreRawByte ==
    (last.op = "write" /\ ~panicked /\ last.address \in NamedTaps) =>
        /\ IoByte(mmu, last.address) = last.value
        /\ last.address \in UnreadTaps => read(mmu, last.address) = last.value

\* The side effect of a returned write of v to the tap address a.
TapEffect(self, cs, a, v) ==
    /\ a = \hFF00 => self.keypad = v
    /\ a = \hFF40 => Call("write_lcdc", a, v) \in { cs[i] : i \in 1..Len(cs) }
    /\ a = \hFF42 => self.gpu.scroll_y = v
    /\ a = \hFF43 => self.gpu.scroll_x = v
    /\ a = BG_PAL_ADDR => Call("set_bgpal", a, v) \in { cs[i] : i \in 1..Len(cs) }
    /\ a = DMA_ADDRESS => Len(cs) = DMA_LENGTH + 1

\* C10, amended. A write of v to 0xFF00, 0xFF40, 0xFF42, 0xFF43, 0xFF46 or
\* 0xFF47 that returns has performed its side effect and stored v in the
\* I/O block at that address, so a read of 0xFF46 or 0xFF47 after it
\* returns v.  A write to 0xFF50 sets the boot latch and stores nothing:
\* the I/O byte at 0x50 stays 0 and read(0xFF50) returns 0 in every state.
C10_TapsExceptBootDisable ==
    /\ (last.op = "write" /\ ~panicked /\ last.address \in IoTaps) =>
            /\ TapEffect(mmu, calls, last.address, last.value)
            /\ IoByte(mmu, last.address) = last.value
            /\ last.address \in UnreadTaps => read(mmu, last.address) = last.value
    /\ Ready =>
            \A a \in IoTaps \ { DMA_ADDRESS }, v \in ProbeBytes :
                LET out == write(mmu, a, v)
                IN  /\ ~out.panic
                    /\ TapEffect(out.self, out.calls, a, v)
                    /\ IoByte(out.self, a) = v
                    /\ a \in UnreadTaps => read(out.self, a) = v
    /\ (last.op = "write" /\ last.address = BOOT_DISABLE_ADDRESS) =>
            mmu.is_booted /\ ~panicked
    /\ IoByte(mmu, BOOT_DISABLE_ADDRESS) = 0
    /\ read(mmu, BOOT_DISABLE_ADDRESS) = 0

\* write(0xFF46, 0x80) has returned: the DMA has run and read(0xFF46) is 0x80.
C10_Witness ==
    /\ last.op = "write" /\ last.address = DMA_ADDRESS /\ last.value = \h80
    /\ ~panicked
    /\ Len(calls) = DMA_LENGTH + 1
    /\ read(mmu, DMA_ADDRESS) = \h80

\* C11. Keypad read is constant: in every reachable state read(0xFF00)
\* returns 0xFF, whatever byte was written to 0xFF00 before: the write keeps
\* the byte in the keypad field and in the I/O block, and the read returns
\* neither.
C11_KeypadReadsIdle ==
    /\ read(mmu, KEYPAD_ADDRESS) = \hFF
    /\ (last.op = "write" /\ last.address = KEYPAD_ADDRESS) =>
            /\ ~panicked
            /\ mmu.keypad = last.value
            /\ IoByte(mmu, KEYPAD_ADDRESS) = last.value
    /\ Ready =>
            \A v \in ProbeBytes :
                LET out == write(mmu, KEYPAD_ADDRESS, v)
                IN  ~out.panic /\ read(out.self, KEYPAD_ADDRESS) = \hFF

\* write(0xFF00, 0x7C) has returned, the keypad field holds 0x7C and
\* read(0xFF00) is 0xFF.
C11_Witness ==
    /\ last.op = "write" /\ last.address = KEYPAD_ADDRESS /\ last.value = \h7C
    /\ ~panicked
    /\ mmu.keypad = \h7C
    /\ read(mmu, KEYPAD_ADDRESS) = \hFF

\* C12. Outcome policy of one executed instruction: after a handler that
\* returned Jumped or JumpedActionTaken the program counter is the value the
\* handler set, the descriptor's length not added; after None or ActionTaken
\* it is the program counter before the instruction plus the descriptor's
\* length; the cycles charged are the base cost for None and Jumped, and the
\* base cost plus the extra cost for ActionTaken and JumpedActionTaken.
C12_OutcomePolicy ==
    executed.count > 0 =>
        /\ executed.execution_type \in { "Jumped", "JumpedActionTaken" } =>
                cpu.pc = executed.handler_pc
        /\ executed.execution_type \in { "None", "ActionTaken" } =>
                cpu.pc = executed.pc_before + executed.instruction.length
        /\ executed.execution_type \in { "None", "Jumped" } =>
                cpu.cycles - executed.cycles_before =
                    executed.instruction.clock_cycles
        /\ executed.execution_type \in { "ActionTaken", "JumpedActionTaken" } =>
                cpu.cycles - executed.cycles_before =
                    executed.instruction.clock_cycles
                    + executed.instruction.clock_cycles_condition.value

\* A three-byte instruction at 0x0100 whose handler jumped to 0x0150 with
\* its action taken: the program counter is 0x0150, not 0x0153, and 24
\* cycles were charged.
C12_Witness ==
    /\ executed.count > 0
    /\ executed.execution_type = "JumpedActionTaken"
    /\ executed.instruction = Instruction(3, 12, Some(12))
    /\ executed.pc_before = \h0100 /\ executed.handler_pc = \h0150
    /\ cpu.pc = \h0150
    /\ cpu.cycles - executed.cycles_before = 24

\* The addresses that belong to no range of the routing.
Holes == { \hFDFF, \hFE9F, \hFF7F, \hFFFE }

\* The addresses whose writes are dropped: the read-only range, the unusable
\* range and the holes.
Dropped(a) == a <= \h7FFF \/ a \in UnusableRange \/ a \in Holes

ByteWriteOps == { "write", "write_hl_addr" }

\* C13. Dropped writes change nothing: a byte write to an address of
\* 0x0000-0x7FFF, of 0xFEA0-0xFEFE or to 0xFDFF, 0xFE9F, 0xFF7F or 0xFFFE
\* returns, makes no call into the Gpu and leaves the whole bus (the boot
\* latch, every array, the keypad byte, both interrupt registers, the Gpu)
\* as it was.
C13_DroppedWrites ==
    /\ [](Ready =>
            \A a \in Addrs, v \in ProbeBytes :
                Dropped(a) =>
                    write(mmu, a, v) = Done(mmu, <<Call("write", a, v)>>))
    /\ [][ (last'.op \in ByteWriteOps /\ Dropped(last'.address)) =>
                (mmu' = mmu /\ ~panicked') ]_vars

\* write(0xFE9F, 0xCB) has returned after a write that set OAM offset 0x9E,
\* and OAM holds nothing but that byte.
C13_Witness ==
    /\ last.op = "write" /\ last.address = \hFE9F /\ last.value = \hCB
    /\ ~panicked
    /\ calls = <<Call("write", \hFE9F, \hCB)>>
    /\ mmu.gpu.oam = (\h9E :> \hCB)

\* C14. The boot latch is false at construction and changes only through a
\* byte write to 0xFF50, issued directly or as either half of a word write:
\* no read, no write to another address and no DMA transfer changes it.
C14_BootLatchFrame ==
    /\ [](ops = 0 => ~mmu.is_booted)
    /\ [](Ready =>
            \A a \in Addrs \ { BOOT_DISABLE_ADDRESS, DMA_ADDRESS },
               v \in ProbeBytes :
                write(mmu, a, v).self.is_booted = mmu.is_booted)
    /\ [][ mmu'.is_booted # mmu.is_booted =>
                (~mmu.is_booted /\ WritesBootDisable(calls')) ]_vars
    /\ [][ (last'.op \in ReadOps \/ ~WritesBootDisable(calls')) =>
                mmu'.is_booted = mmu.is_booted ]_vars

\* The first operation of the session, write_word(0xFF4F, 0xCB7C), has set
\* the latch with its second byte write.
C14_Witness ==
    /\ ops = 1
    /\ last.op = "write_word" /\ last.address = \hFF4F
    /\ ~panicked
    /\ calls[2] = Call("write", BOOT_DISABLE_ADDRESS, \h7C)
    /\ mmu.is_booted

\* C15. Addresses outside every region read as zero forever: read(0xFDFF),
\* read(0xFE9F), read(0xFF7F) and read(0xFFFE) return 0 in every reachable
\* state, after a byte or a word write to them, and after a DMA transfer
\* whose last copied byte (offset 159, destination 0xFE9F) is not zero.
C15_HolesReadZero ==
    /\ \A a \in Holes : read(mmu, a) = 0
    /\ Ready =>
            \A a \in Holes :
                /\ \A v \in ProbeBytes : read(write(mmu, a, v).self, a) = 0
                /\ \A w \in ProbeWords, checks \in BOOLEAN :
                        /\ read(write_word(checks, mmu, a - 1, w).self, a) = 0
                        /\ read(write_word(checks, mmu, a, w).self, a) = 0

\* A DMA transfer from 0x80 has handed the Gpu 0x7C for 0xFE9F, OAM offset
\* 159 holds it, and read(0xFE9F) is 0.
C15_Witness ==
    /\ last.op = "write" /\ last.address = DMA_ADDRESS /\ last.value = \h80
    /\ ~panicked
    /\ calls[DMA_LENGTH + 1] = Call("write_oam", \hFE9F, \h7C)
    /\ ArrayGet(mmu.gpu.oam, DMA_LENGTH - 1) = \h7C
    /\ read(mmu, \hFE9F) = 0

\* C16. Live GPU read taps: read(0xFF42) and read(0xFF43) return the Gpu's
\* scroll_y and scroll_x, so write(0xFF42, v) then read(0xFF42) returns v
\* (the same for 0xFF43); read(0xFF44) returns the Gpu's current_scanline,
\* which no bus write to 0xFF44 changes; read(0xFF40) returns the Gpu's
\* lcdc field, also where the I/O block holds another byte at 0x40.  (The
\* Gpu of the session is at scanline 0x90.)
C16_LiveGpuTaps ==
    /\ read(mmu, SCROLL_Y_ADDRESS) = mmu.gpu.scroll_y
    /\ read(mmu, SCROLL_X_ADDRESS) = mmu.gpu.scroll_x
    /\ read(mmu, SCANLINE_ADDRESS) = mmu.gpu.current_scanline
    /\ read(mmu, LCDC_ADDRESS) = mmu.gpu.lcdc
    /\ (/\ last.op = "write" /\ ~panicked
        /\ last.address \in { SCROLL_Y_ADDRESS, SCROLL_X_ADDRESS }) =>
            read(mmu, last.address) = last.value
    /\ (last.op = "write" /\ last.address = SCANLINE_ADDRESS) =>
            /\ ~panicked
            /\ IoByte(mmu, SCANLINE_ADDRESS) = last.value
            /\ read(mmu, SCANLINE_ADDRESS) = \h90
    /\ Ready =>
            \A v \in ProbeBytes :
                /\ read(write(mmu, SCROLL_Y_ADDRESS, v).self, SCROLL_Y_ADDRESS) = v
                /\ read(write(mmu, SCROLL_X_ADDRESS, v).self, SCROLL_X_ADDRESS) = v
                /\ read(write(mmu, SCANLINE_ADDRESS, v).self, SCANLINE_ADDRESS)
                        = mmu.gpu.current_scanline
                /\ \A checks \in BOOLEAN :
                        read(write_word(checks, mmu, SCROLL_X_ADDRESS, v * U8 + v).self,
                             SCANLINE_ADDRESS) = mmu.gpu.current_scanline

\* write(0xFF44, 0x7C) has returned: the I/O block holds 0x7C at 0x44 and
\* read(0xFF44) is the Gpu's scanline, 0x90; the I/O block holds nothing at
\* 0x40 and read(0xFF40) is the Gpu's lcdc, 0x91.
C16_Witness ==
    /\ last.op = "write" /\ last.address = SCANLINE_ADDRESS /\ last.value = \h7C
    /\ ~panicked
    /\ IoByte(mmu, SCANLINE_ADDRESS) = \h7C
    /\ read(mmu, SCANLINE_ADDRESS) = \h90
    /\ IoByte(mmu, LCDC_ADDRESS) = 0
    /\ read(mmu, LCDC_ADDRESS) = \h91

\* The RAM-backed regions: external, working, echo and high RAM.
RamFields == { "ext_ram", "w_ram", "echo_ram", "h_ram" }

IsRam(a) ==
    \/ a >= EXT_RAM_ADDRESS /\ a <= \hFDFE
    \/ a >= H_RAM_ADDR /\ a <= \hFFFD

RamField(a) ==
    IF a <= \hBFFF THEN "ext_ram"
    ELSE IF a <= \hDFFF THEN "w_ram"
    ELSE IF a <= \hFDFE THEN "echo_ram"
    ELSE "h_ram"

RamBase(a) ==
    IF a <= \hBFFF THEN EXT_RAM_ADDRESS
    ELSE IF a <= \hDFFF THEN W_RAM_ADDRESS
    ELSE IF a <= \hFDFE THEN ECHO_RAM_ADDRESS
    ELSE H_RAM_ADDR

\* The two ends of each RAM-backed region, and the working-RAM addresses
\* with their echo addresses.
RamProbe ==
    { \hA000, \hBFFF, \hC000, \hC001, \hDDFE, \hDFFF, \hE000, \hE001,
      \hFDFE, \hFF80, \hFFFD }

\* The distance from a working-RAM address to its echo address.
EchoDistance == ECHO_RAM_ADDRESS - W_RAM_ADDRESS

\* From `before` to `after`, of the RAM-backed regions only the byte at the
\* address a may have changed.
OnlyRamByte(before, after, a) ==
    /\ \A f \in RamFields \ { RamField(a) } : after[f] = before[f]
    /\ \A i \in (DOMAIN after[RamField(a)] \cup DOMAIN before[RamField(a)])
                    \ { a - RamBase(a) } :
            ArrayGet(after[RamField(a)], i) = ArrayGet(before[RamField(a)], i)
    /\ \A b \in RamProbe \ { a } : read(after, b) = read(before, b)
    /\ RamField(a) = "w_ram" /\ a + EchoDistance <= \hFDFE =>
            read(after, a + EchoDistance) = read(before, a + EchoDistance)
    /\ RamField(a) = "echo_ram" =>
            read(after, a - EchoDistance) = read(before, a - EchoDistance)

\* C17. Echo RAM is a separate store, not an alias: a write to the
\* working-RAM address 0xC000+k never changes the value read at 0xE000+k,
\* and a write to 0xE000+k never changes the value read at 0xC000+k; a write
\* to one address of a RAM-backed region leaves the value at every other
\* address of every RAM-backed region unchanged.
C17_EchoRamSeparate ==
    /\ [](Ready =>
            \A a \in RamProbe, v \in ProbeBytes :
                OnlyRamByte(mmu, write(mmu, a, v).self, a))
    /\ [][ (last'.op \in ByteWriteOps /\ IsRam(last'.address)) =>
                OnlyRamByte(mmu, mmu', last'.address) ]_vars

\* write(0xE000, 0xCB) has returned with 0x7C in working RAM at 0xC000:
\* read(0xE000) is 0xCB and read(0xC000) is still 0x7C.
C17_Witness ==
    /\ last.op = "write" /\ last.address = \hE000 /\ last.value = \hCB
    /\ ~panicked
    /\ read(mmu, \hE000) = \hCB
    /\ read(mmu, \hC000) = \h7C

ReadTaps ==
    { KEYPAD_ADDRESS, LCDC_ADDRESS, SCROLL_Y_ADDRESS, SCROLL_X_ADDRESS,
      SCANLINE_ADDRESS }

\* The addresses of C18: the four RAM regions, the I/O registers without a
\* read tap, and the two interrupt registers.
ZeroInitialised ==
    (EXT_RAM_ADDRESS..\hFDFE) \cup (H_RAM_ADDR..\hFFFD)
    \cup ((IO_ADDRESS..\hFF7E) \ ReadTaps)
    \cup { INTERRUPT_FLAGS_ADDRESS, INTERRUPT_ENABLE_ADDRESS }

StoreFields == RamFields \cup { "io" }

\* The address of the first byte of a store.
FieldBase(f) ==
    IF f = "io" THEN IO_ADDRESS
    ELSE RamBase(CHOOSE a \in RamProbe : RamField(a) = f)

\* The indices whose byte differs between two arrays.
Changed(before, after) ==
    { i \in DOMAIN before \cup DOMAIN after :
        ArrayGet(before, i) # ArrayGet(after, i) }

\* A byte write of v to the address a is among the calls.
Stored(cs, a, v) == \E i \in 1..Len(cs) : cs[i] = Call("write", a, v)

\* Every byte of the stores that `after` holds and `before` did not was
\* written by a byte write among the calls, to that address.
StoresExplained(before, after, cs) ==
    /\ \A f \in StoreFields :
            \A i \in Changed(before[f], after[f]) :
                Stored(cs, FieldBase(f) + i, ArrayGet(after[f], i))
    /\ after.interrupt_flags # before.interrupt_flags =>
            Stored(cs, INTERRUPT_FLAGS_ADDRESS, after.interrupt_flags)
    /\ after.interrupts_enabled # before.interrupts_enabled =>
            Stored(cs, INTERRUPT_ENABLE_ADDRESS, after.interrupts_enabled)

\* C18. Zero initialisation: right after construction every address of
\* external, working, echo and high RAM, of the I/O registers without a read
\* tap, and 0xFF0F and 0xFFFF read 0, and the boot latch is false;
\* afterwards a byte of these stores changes only in an operation that
\* issued a byte write of the new value to that address.
C18_ZeroInitialised ==
    /\ [](ops = 0 =>
            /\ ~mmu.is_booted
            /\ \A a \in ZeroInitialised : read(mmu, a) = 0)
    /\ [][StoresExplained(mmu, mmu', calls')]_vars

\* The first operation, write(0xFF7E, 0x7C), has returned: the last I/O
\* register reads 0x7C and every other byte of the stores is still 0.
C18_Witness ==
    /\ ops = 1
    /\ last.op = "write" /\ last.address = \hFF7E /\ last.value = \h7C
    /\ ~panicked
    /\ Stored(calls, \hFF7E, \h7C)
    /\ read(mmu, \hFF7E) = \h7C
    /\ \A a \in ZeroInitialised \ { \hFF7E } : read(mmu, a) = 0

BusOps == { "read", "write", "read_word", "write_word" }

\* C19. Bus operations are total over the 16-bit address space: with the
\* BIOS store present (so outside the missing-BIOS case), read, write,
\* read_word and write_word return for every address, 0xFFFF included,
\* where the second address of a word operation has to stay a 16-bit
\* address.
C19_BusTotal ==
    (mmu.bios.present /\ last.op \in BusOps) => ~panicked

\* The step repeats the read before it: the same operation at the same
\* address.
RepeatsRead ==
    /\ last.op \in ReadOps
    /\ last'.op = last.op
    /\ last'.address = last.address

\* C20. Reads have no side effects: read, read_word, read_opcode (and
\* read_hl_addr) at any address leave the whole bus as it was: the boot
\* latch, every RAM and I/O byte, the keypad byte, both interrupt registers
\* and the Gpu; and a read repeated with no write in between returns what
\* the first returned.
C20_ReadsHaveNoEffect ==
    /\ [][ last'.op \in ReadOps => (mmu' = mmu /\ calls' = << >>) ]_vars
    /\ [][ (RepeatsRead /\ ~panicked') =>
                (last'.result = last.result /\ last'.tag = last.tag) ]_vars

\* read_word(0xC000) has returned 0x7CFF as the second operation, after
\* write_word(0xC000, 0x7CFF): working RAM still holds the two bytes and
\* nothing else of the bus has changed since construction.
C20_Witness ==
    /\ ops = 2
    /\ last.op = "read_word" /\ last.address = \hC000 /\ last.result = \h7CFF
    /\ ~panicked
    /\ mmu = [new(mmu.cartridge, NewGpu(\h90), mmu.bios)
                EXCEPT !.w_ram = (0 :> \h7C) @@ (1 :> \hFF)]
====
